---- MODULE Spec2Model ----
(***************************************************************************)
(* A model of zip-mcp: the archive engine (compressData, decompressData,   *)
(* getZipInfo) over @zip.js/zip.js, and the compress / decompress /        *)
(* getZipInfo tools over a file system.                                    *)
(*                                                                         *)
(* Conventions.  A JavaScript string is the sequence of its code points,   *)
(* a Uint8Array the sequence of its bytes.  An optional value is <<>>      *)
(* (undefined) or <<v>>.  An archive buffer is kept in parsed form: the    *)
(* central directory as a sequence of entry records, the archive comment,  *)
(* and whether the end-of-central-directory record is still there.         *)
(***************************************************************************)
EXTENDS Integers, Sequences, FiniteSets, TLC

VARIABLES
  pc,       \* position of the running engine call: "idle", "add", "close", "read", "info"
  caller,   \* who awaits the engine call: "api", "compress", "decompress", "getZipInfo"
  frame,    \* the locals of the running engine call
  ret,      \* what the last engine call returned or threw
  call,     \* the arguments of the engine calls made so far (what the caller passed)
  fs,       \* the file system the tools work on: path -> node
  tool,     \* the arguments and locals of the running tool call
  reply     \* what the last tool call answered

vars == <<pc, caller, frame, ret, call, fs, tool, reply>>

----------------------------------------------------------------------------
(* Bounds of the model *)

MaxEntries == 2

----------------------------------------------------------------------------
(* JavaScript values *)

Undefined == <<>>
Some(v) == <<v>>
IsDefined(o) == Len(o) > 0
Val(o) == o[1]

\* truthiness of an optional string: undefined and "" are falsy
TruthyString(o) == IsDefined(o) /\ Len(Val(o)) > 0

\* truthiness of an optional number: undefined and 0 are falsy
TruthyNumber(o) == IsDefined(o) /\ Val(o) # 0

RECURSIVE SumSeq(_)
SumSeq(s) == IF s = <<>> THEN 0 ELSE Head(s) + SumSeq(Tail(s))

RECURSIVE Flatten(_)
Flatten(ss) == IF ss = <<>> THEN <<>> ELSE Head(ss) \o Flatten(Tail(ss))

\* TextEncoder.encode: the UTF-8 bytes of one code point
EncodeCodePoint(c) ==
  IF c < 128 THEN <<c>>
  ELSE IF c < 2048 THEN <<192 + (c \div 64), 128 + (c % 64)>>
  ELSE IF c < 65536
    THEN <<224 + (c \div 4096), 128 + ((c \div 64) % 64), 128 + (c % 64)>>
    ELSE <<240 + (c \div 262144), 128 + ((c \div 4096) % 64),
           128 + ((c \div 64) % 64), 128 + (c % 64)>>

TextEncode(str) == Flatten([i \in 1..Len(str) |-> EncodeCodePoint(str[i])])

\* TextDecoder.decode of well-formed UTF-8
RECURSIVE TextDecode(_)
TextDecode(b) ==
  IF b = <<>> THEN <<>>
  ELSE IF b[1] < 128 THEN <<b[1]>> \o TextDecode(SubSeq(b, 2, Len(b)))
  ELSE IF b[1] < 224
    THEN <<(b[1] - 192) * 64 + (b[2] - 128)>> \o TextDecode(SubSeq(b, 3, Len(b)))
  ELSE IF b[1] < 240
    THEN <<(b[1] - 224) * 4096 + (b[2] - 128) * 64 + (b[3] - 128)>>
         \o TextDecode(SubSeq(b, 4, Len(b)))
    ELSE <<(b[1] - 240) * 262144 + (b[2] - 128) * 4096 + (b[3] - 128) * 64
           + (b[4] - 128)>> \o TextDecode(SubSeq(b, 5, Len(b)))

\* String.prototype.trim on the white space of the model's alphabet (U+0020)
RECURSIVE TrimStart(_)
TrimStart(s) == IF s # <<>> /\ Head(s) = 32 THEN TrimStart(Tail(s)) ELSE s

RECURSIVE TrimEnd(_)
TrimEnd(s) ==
  IF s # <<>> /\ s[Len(s)] = 32 THEN TrimEnd(SubSeq(s, 1, Len(s) - 1)) ELSE s

Trim(s) == TrimEnd(TrimStart(s))

\* name.endsWith("/")
EndsWithSlash(s) == s # <<>> /\ s[Len(s)] = 47

----------------------------------------------------------------------------
(* @zip.js/zip.js as compression.ts uses it.  The codecs are modelled by   *)
(* what they do to the bytes: deflate as a lossless re-coding (the delta   *)
(* of each byte to its predecessor), encryption as a keyed re-coding with  *)
(* a password verification value, the CRC as a checksum of the plain       *)
(* bytes.  Distinct passwords of the model have distinct verifiers.        *)

ERR_DUPLICATED_NAME == "File already exists"
ERR_INVALID_LEVEL == "Invalid compression level"
ERR_ENCRYPTED == "File contains encrypted entry"
ERR_INVALID_PASSWORD == "Invalid password"
ERR_INVALID_SIGNATURE == "Invalid signature"
ERR_EOCDR_NOT_FOUND == "End of central directory not found"

Deflate(b) ==
  [i \in 1..Len(b) |-> (256 + b[i] - (IF i = 1 THEN 0 ELSE b[i - 1])) % 256]

RECURSIVE InflateFrom(_, _)
InflateFrom(prev, d) ==
  IF d = <<>> THEN <<>>
  ELSE LET x == (prev + Head(d)) % 256 IN <<x>> \o InflateFrom(x, Tail(d))

Inflate(d) == InflateFrom(0, d)

KeyByte(password, strength) == (SumSeq(password) + strength) % 256
Verifier(password, strength) == (SumSeq(password) * 4 + strength) % 65536
Encrypt(b, password, strength) ==
  [i \in 1..Len(b) |-> (b[i] + KeyByte(password, strength)) % 256]
Decrypt(b, password, strength) ==
  [i \in 1..Len(b) |-> (256 + b[i] - KeyByte(password, strength)) % 256]

\* AES framing of an encrypted payload: salt, password verification value, MAC
AesOverhead(strength) == (4 + 4 * strength) + 2 + 10

Signature(b) == (SumSeq(b) + Len(b)) % 256

\* new zip.ZipWriter(new zip.Uint8ArrayWriter(), {level, password, encryptionStrength})
ZipWriterNew(level, password, encryptionStrength) ==
  [level |-> level, password |-> password,
   encryptionStrength |-> encryptionStrength,
   filenames |-> {}, files |-> <<>>]

\* the central-directory record zipWriter.add appends for (name, bytes)
FileEntry(w, name, bytes) ==
  LET directory == EndsWithSlash(name)
      encrypted == TruthyString(w.password)
      strength == IF IsDefined(w.encryptionStrength)
                    THEN Val(w.encryptionStrength) ELSE 3
      compressed == w.level # 0 /\ ~directory
      packed == IF compressed THEN Deflate(bytes) ELSE bytes
      payload == IF encrypted
                   THEN Encrypt(packed, Val(w.password), strength) ELSE packed
  IN [rawFilename |-> TextEncode(name),
      method |-> IF compressed THEN "deflate" ELSE "store",
      encrypted |-> encrypted,
      strength |-> strength,
      verifier |-> IF encrypted THEN Verifier(Val(w.password), strength) ELSE 0,
      payload |-> payload,
      uncompressedSize |-> Len(bytes),
      compressedSize |-> Len(payload)
                         + (IF encrypted THEN AesOverhead(strength) ELSE 0),
      signature |-> Signature(bytes)]

\* zipWriter.add(name, reader): the outcomes [err, w].  The name is trimmed
\* and must be new to the writer.  What the library does with a level
\* outside 0..9 is not fixed by this repository: it may take it or throw.
ZipWriterAdd(w, name, bytes) ==
  LET n == Trim(name)
      added == [w EXCEPT !.filenames = @ \cup {n},
                         !.files = Append(@, FileEntry(w, n, bytes))]
  IN IF n \in w.filenames
       THEN {[err |-> Some(ERR_DUPLICATED_NAME), w |-> w]}
       ELSE IF w.level \in 0..9
         THEN {[err |-> Undefined, w |-> added]}
         ELSE {[err |-> Undefined, w |-> added],
               [err |-> Some(ERR_INVALID_LEVEL), w |-> w]}

\* zipWriter.close(comment): the finished buffer
ZipWriterClose(w, comment) ==
  [entries |-> w.files,
   comment |-> IF IsDefined(comment) THEN TextEncode(Val(comment)) ELSE <<>>,
   eocd |-> TRUE]

\* zipReader.getEntries(): [err, entries]; each entry as the reader presents it
ReadEntry(e) ==
  LET filename == TextDecode(e.rawFilename)
  IN [filename |-> filename,
      directory |-> EndsWithSlash(filename),
      uncompressedSize |-> e.uncompressedSize,
      compressedSize |-> e.compressedSize,
      encrypted |-> e.encrypted,
      raw |-> e]

ZipReaderGetEntries(buf) ==
  IF ~buf.eocd
    THEN [err |-> Some(ERR_EOCDR_NOT_FOUND), entries |-> <<>>]
    ELSE [err |-> Undefined,
          entries |-> [i \in 1..Len(buf.entries) |-> ReadEntry(buf.entries[i])]]

\* zipReader.comment: the raw comment bytes; for an archive without comment
\* the reader holds either no value or an empty array
ZipReaderComment(buf) ==
  IF buf.comment = <<>> THEN {Undefined, Some(<<>>)} ELSE {Some(buf.comment)}

\* entry.getData(writer) under the reader's password: [err, data]
EntryGetData(entry, password) ==
  LET e == entry.raw
      packed == IF e.encrypted
                  THEN Decrypt(e.payload, Val(password), e.strength)
                  ELSE e.payload
      plain == IF e.method = "deflate" THEN Inflate(packed) ELSE packed
  IN IF e.encrypted /\ ~TruthyString(password)
       THEN [err |-> Some(ERR_ENCRYPTED), data |-> <<>>]
     ELSE IF e.encrypted /\ Verifier(Val(password), e.strength) # e.verifier
       THEN [err |-> Some(ERR_INVALID_PASSWORD), data |-> <<>>]
     ELSE IF Signature(plain) # e.signature
       THEN [err |-> Some(ERR_INVALID_SIGNATURE), data |-> <<>>]
     ELSE [err |-> Undefined, data |-> plain]

----------------------------------------------------------------------------
(* The engine: src/utils/compression.ts *)

\* A faulty variant, kept for comparison: the error text without the cause
ErrorMessageBare(prefix, cause) == <<prefix>>

\* new Error(`<prefix>: ${error.message}`): the text keeps the cause
ErrorMessage(prefix, cause) == <<prefix, cause>>

Thrown(prefix, cause) ==
  [status |-> "error", message |-> ErrorMessage(prefix, cause)]

Returned(value) == [status |-> "ok", value |-> value]

Pending == [status |-> "pending"]

\* options.level || 5
WriterLevel(options) ==
  IF TruthyNumber(options.level) THEN Val(options.level) ELSE 5

\* A faulty variant, kept for comparison: a string handed on as its code units, not encoded
FileDataUnencoded(data) == data.val

\* the bytes handed to zipWriter.add: a string goes through TextEncoder
FileData(data) == IF data.type = "string" THEN TextEncode(data.val) ELSE data.val

\* the items compressData adds: the array given, or the one item named "file"
ItemsOf(data) ==
  IF data.array THEN data.items
  ELSE <<[name |-> <<102, 105, 108, 101>>, data |-> data.single]>>

\* compressData, up to the first await: the writer is built
CompressDataBegin(data, options, who) ==
  /\ pc = "idle"
  /\ pc' = "compressData"
  /\ caller' = who
  /\ frame' = [op |-> "compressData",
               zipWriter |-> ZipWriterNew(WriterLevel(options), options.password,
                                          options.encryptionStrength),
               items |-> ItemsOf(data), i |-> 1, adds |-> 0]
  /\ ret' = Pending
  /\ call' = [call EXCEPT !.compress = Some([data |-> data, options |-> options]),
                          !.archive = Undefined]

\* A faulty variant, kept for comparison: an item whose add throws is passed over
CompressDataAddSkipping ==
  /\ pc = "compressData"
  /\ frame.i <= Len(frame.items)
  /\ LET item == frame.items[frame.i]
     IN \E o \in ZipWriterAdd(frame.zipWriter, item.name, FileData(item.data)) :
          frame' = [frame EXCEPT !.zipWriter = o.w, !.i = @ + 1, !.adds = @ + 1]
  /\ UNCHANGED <<pc, ret, call, caller, fs, tool, reply>>

\* one round of the loop: await zipWriter.add(item.name, reader)
CompressDataAdd ==
  /\ pc = "compressData"
  /\ frame.i <= Len(frame.items)
  /\ LET item == frame.items[frame.i]
     IN \E o \in ZipWriterAdd(frame.zipWriter, item.name, FileData(item.data)) :
          IF IsDefined(o.err)
            THEN /\ ret' = Thrown("compressData", Val(o.err))
                 /\ pc' = "idle"
                 /\ frame' = [frame EXCEPT !.adds = @ + 1]
                 /\ UNCHANGED call
            ELSE /\ frame' = [frame EXCEPT !.zipWriter = o.w, !.i = @ + 1,
                                           !.adds = @ + 1]
                 /\ UNCHANGED <<pc, ret, call>>
  /\ UNCHANGED <<caller, fs, tool, reply>>

\* return await zipWriter.close()
CompressDataClose ==
  /\ pc = "compressData"
  /\ frame.i > Len(frame.items)
  /\ LET buf == ZipWriterClose(frame.zipWriter, Undefined)
     IN /\ ret' = Returned(buf)
        /\ call' = [call EXCEPT !.archive = Some(buf)]
  /\ pc' = "idle"
  /\ UNCHANGED <<caller, frame, fs, tool, reply>>

\* the read call before this one, with what it returned
Earlier ==
  [op |-> Val(call.read).op, buf |-> Val(call.read).buf,
   options |-> Val(call.read).options, ret |-> ret]

\* decompressData, up to the loop: the reader is built and the entries read
DecompressDataBegin(buf, options, who) ==
  /\ pc = "idle"
  /\ caller' = who
  /\ call' = [call EXCEPT
                !.read = Some([op |-> "decompressData", buf |-> buf,
                               options |-> options]),
                !.prior = IF IsDefined(call.read) THEN Some(Earlier) ELSE Undefined]
  /\ LET got == ZipReaderGetEntries(buf)
     IN IF IsDefined(got.err)
          THEN /\ ret' = Thrown("decompressData", Val(got.err))
               /\ pc' = "idle"
               /\ frame' = [op |-> "decompressData", entries |-> <<>>, i |-> 1,
                            results |-> <<>>, password |-> options.password]
          ELSE /\ ret' = Pending
               /\ pc' = "decompressData"
               /\ frame' = [op |-> "decompressData", entries |-> got.entries,
                            i |-> 1, results |-> <<>>,
                            password |-> options.password]

\* A faulty variant, kept for comparison: directories are read out like files
DecompressDataEntryAll ==
  /\ pc = "decompressData"
  /\ frame.i <= Len(frame.entries)
  /\ LET entry == frame.entries[frame.i]
         got == EntryGetData(entry, frame.password)
     IN IF IsDefined(got.err)
          THEN /\ ret' = Thrown("decompressData", Val(got.err))
               /\ pc' = "idle"
               /\ UNCHANGED frame
          ELSE /\ frame' = [frame EXCEPT
                              !.i = @ + 1,
                              !.results = Append(@, [name |-> entry.filename,
                                                     data |-> got.data])]
               /\ UNCHANGED <<pc, ret>>
  /\ UNCHANGED <<caller, call, fs, tool, reply>>

\* one round of the loop: a file entry is read out, a directory passed over
DecompressDataEntry ==
  /\ pc = "decompressData"
  /\ frame.i <= Len(frame.entries)
  /\ LET entry == frame.entries[frame.i]
         got == EntryGetData(entry, frame.password)
     IN IF entry.directory
          THEN /\ frame' = [frame EXCEPT !.i = @ + 1]
               /\ UNCHANGED <<pc, ret>>
          ELSE IF IsDefined(got.err)
            THEN /\ ret' = Thrown("decompressData", Val(got.err))
                 /\ pc' = "idle"
                 /\ UNCHANGED frame
            ELSE /\ frame' = [frame EXCEPT
                                !.i = @ + 1,
                                !.results = Append(@, [name |-> entry.filename,
                                                       data |-> got.data])]
                 /\ UNCHANGED <<pc, ret>>
  /\ UNCHANGED <<caller, call, fs, tool, reply>>

\* A faulty variant, kept for comparison: the results so far are returned, whether or not the loop is over
DecompressDataReturnEarly ==
  /\ pc = "decompressData"
  /\ ret' = Returned(frame.results)
  /\ pc' = "idle"
  /\ UNCHANGED <<caller, frame, call, fs, tool, reply>>

\* await zipReader.close(); return results
DecompressDataReturn ==
  /\ pc = "decompressData"
  /\ frame.i > Len(frame.entries)
  /\ ret' = Returned(frame.results)
  /\ pc' = "idle"
  /\ UNCHANGED <<caller, frame, call, fs, tool, reply>>

\* getZipInfo, up to the loop
GetZipInfoBegin(buf, options, who) ==
  /\ pc = "idle"
  /\ caller' = who
  /\ call' = [call EXCEPT
                !.read = Some([op |-> "getZipInfo", buf |-> buf,
                               options |-> options]),
                !.prior = IF IsDefined(call.read) THEN Some(Earlier) ELSE Undefined]
  /\ LET got == ZipReaderGetEntries(buf)
     IN IF IsDefined(got.err)
          THEN /\ ret' = Thrown("getZipInfo", Val(got.err))
               /\ pc' = "idle"
               /\ frame' = [op |-> "getZipInfo", entries |-> <<>>, i |-> 1,
                            files |-> <<>>, totalSize |-> 0,
                            totalCompressedSize |-> 0, buf |-> buf]
          ELSE /\ ret' = Pending
               /\ pc' = "getZipInfo"
               /\ frame' = [op |-> "getZipInfo", entries |-> got.entries, i |-> 1,
                            files |-> <<>>, totalSize |-> 0,
                            totalCompressedSize |-> 0, buf |-> buf]

\* A faulty variant, kept for comparison: directories are listed and counted like files
GetZipInfoEntryAll ==
  /\ pc = "getZipInfo"
  /\ frame.i <= Len(frame.entries)
  /\ LET entry == frame.entries[frame.i]
     IN frame' = [frame EXCEPT
                    !.i = @ + 1,
                    !.files = Append(@, [filename |-> entry.filename,
                                         size |-> entry.uncompressedSize,
                                         compressedSize |-> entry.compressedSize,
                                         encrypted |-> entry.encrypted]),
                    !.totalSize = @ + entry.uncompressedSize,
                    !.totalCompressedSize = @ + entry.compressedSize]
  /\ UNCHANGED <<pc, caller, ret, call, fs, tool, reply>>

\* one round of the loop: a file entry is listed and counted
GetZipInfoEntry ==
  /\ pc = "getZipInfo"
  /\ frame.i <= Len(frame.entries)
  /\ LET entry == frame.entries[frame.i]
     IN IF entry.directory
          THEN frame' = [frame EXCEPT !.i = @ + 1]
          ELSE frame' = [frame EXCEPT
                           !.i = @ + 1,
                           !.files = Append(@, [filename |-> entry.filename,
                                                size |-> entry.uncompressedSize,
                                                compressedSize |-> entry.compressedSize,
                                                encrypted |-> entry.encrypted]),
                           !.totalSize = @ + entry.uncompressedSize,
                           !.totalCompressedSize = @ + entry.compressedSize]
  /\ UNCHANGED <<pc, caller, ret, call, fs, tool, reply>>

\* comment: zipReader.comment ? new TextDecoder().decode(zipReader.comment) : undefined
MetadataComment(readerComment) ==
  IF IsDefined(readerComment) THEN Some(TextDecode(Val(readerComment)))
  ELSE Undefined

\* the metadata is put together and returned
GetZipInfoReturn ==
  /\ pc = "getZipInfo"
  /\ frame.i > Len(frame.entries)
  /\ \E c \in ZipReaderComment(frame.buf) :
       ret' = Returned([files |-> frame.files, totalSize |-> frame.totalSize,
                        totalCompressedSize |-> frame.totalCompressedSize,
                        comment |-> MetadataComment(c)])
  /\ pc' = "idle"
  /\ UNCHANGED <<caller, frame, call, fs, tool, reply>>

----------------------------------------------------------------------------
(* Calls of the engine by a program that imports it, with their inputs *)

\* entry names: "a", "b", " a", "a/"
NameInputs == {<<97>>, <<98>>, <<32, 97>>, <<97, 47>>}

\* contents: the string "e-acute", a Uint8Array, an empty Blob
ContentInputs ==
  {[type |-> "string", val |-> <<233>>],
   [type |-> "bytes", val |-> <<7, 7>>],
   [type |-> "blob", val |-> <<>>]}

ItemInputs == [name : NameInputs, data : ContentInputs]

SeqsUpTo(S, n) == UNION {[1..k -> S] : k \in 0..n}

DataInputs ==
  {[array |-> TRUE, items |-> items, single |-> [type |-> "bytes", val |-> <<>>]] :
     items \in SeqsUpTo(ItemInputs, MaxEntries)}
  \cup {[array |-> FALSE, items |-> <<>>, single |-> d] : d \in ContentInputs}

\* level: not given, 0, 9, and a value outside 0..9
LevelInputs == {Undefined, Some(0), Some(9), Some(10)}

\* password: not given, "", "p"; a reader may also try "q"
PasswordInputs == {Undefined, Some(<<>>), Some(<<112>>)}
ReadPasswordInputs == PasswordInputs \cup {Some(<<113>>)}

StrengthInputs == {Undefined, Some(1)}

OptionInputs ==
  [level : LevelInputs, password : PasswordInputs,
   encryptionStrength : StrengthInputs, comment : {Undefined}]

\* a buffer as it reaches a reader: intact, cut short, or with one payload changed
Damaged(buf, d) ==
  IF d = 0 THEN buf
  ELSE IF d > Len(buf.entries) THEN [buf EXCEPT !.eocd = FALSE]
  ELSE [buf EXCEPT !.entries[d].payload[1] = (@ + 1) % 256]

\* the damages tried: none, the end cut off, the last non-empty payload changed
DamageInputs(buf) ==
  LET full == {d \in 1..Len(buf.entries) : buf.entries[d].payload # <<>>}
  IN {0, Len(buf.entries) + 1}
     \cup {d \in full : \A x \in full : x <= d}

ApiCompressData ==
  /\ tool.name = "none"
  /\ ~IsDefined(call.compress)
  /\ \E data \in DataInputs, options \in OptionInputs :
       CompressDataBegin(data, options, "api")
  /\ UNCHANGED <<fs, tool, reply>>

ApiDecompressData ==
  /\ tool.name = "none"
  /\ IsDefined(call.archive)
  /\ ~IsDefined(call.read)
  /\ \E d \in DamageInputs(Val(call.archive)), password \in ReadPasswordInputs :
       DecompressDataBegin(Damaged(Val(call.archive), d),
                           [password |-> password], "api")
  /\ UNCHANGED <<fs, tool, reply>>

\* getZipInfo of the archive, or of the buffer decompressData was just given
ApiGetZipInfo ==
  /\ tool.name = "none"
  /\ IsDefined(call.archive)
  /\ \/ /\ ~IsDefined(call.read)
        /\ \E d \in DamageInputs(Val(call.archive)), password \in PasswordInputs :
             GetZipInfoBegin(Damaged(Val(call.archive), d),
                             [password |-> password], "api")
     \/ /\ IsDefined(call.read)
        /\ Val(call.read).op = "decompressData"
        /\ GetZipInfoBegin(Val(call.read).buf, Val(call.read).options, "api")
  /\ UNCHANGED <<fs, tool, reply>>

----------------------------------------------------------------------------
(* The file system and node's path module, as index.ts uses them.  A path  *)
(* is absolute and normalised: the sequence of its segments.  The root     *)
(* always exists and is a directory.                                       *)

Root == <<>>
DirNode == [kind |-> "dir", zip |-> FALSE, bytes |-> <<>>, buf |-> <<>>]
RawFile(bytes) == [kind |-> "file", zip |-> FALSE, bytes |-> bytes, buf |-> <<>>]
ZipFile(buf) == [kind |-> "file", zip |-> TRUE, bytes |-> <<>>, buf |-> buf]

\* exists(filePath): fs.access succeeds
Exists(f, p) == p = Root \/ p \in DOMAIN f
IsDirectory(f, p) == p = Root \/ (p \in DOMAIN f /\ f[p].kind = "dir")
IsFile(f, p) == p \in DOMAIN f /\ f[p].kind = "file"

\* path.dirname, path.basename
Dirname(p) == IF p = Root THEN Root ELSE SubSeq(p, 1, Len(p) - 1)
Basename(p) == IF p = Root THEN <<>> ELSE p[Len(p)]

Prefixes(p) == {SubSeq(p, 1, k) : k \in 1..Len(p)}

\* the segments of a string between its "/" separators
RECURSIVE SplitFrom(_, _)
SplitFrom(cur, str) ==
  IF str = <<>> THEN <<cur>>
  ELSE IF Head(str) = 47 THEN <<cur>> \o SplitFrom(<<>>, Tail(str))
  ELSE SplitFrom(Append(cur, Head(str)), Tail(str))

Split(str) == SplitFrom(<<>>, str)

\* path.join(base, name): the segments of name applied to base, "" and "."
\* dropped, ".." going one directory up
RECURSIVE Walk(_, _)
Walk(p, segs) ==
  IF segs = <<>> THEN p
  ELSE IF Head(segs) = <<>> \/ Head(segs) = <<46>> THEN Walk(p, Tail(segs))
  ELSE IF Head(segs) = <<46, 46>> THEN Walk(Dirname(p), Tail(segs))
  ELSE Walk(Append(p, Head(segs)), Tail(segs))

Join(base, name) == Walk(base, Split(name))

\* the string of a relative path: its segments with "/" between them
RECURSIVE Unsplit(_)
Unsplit(segs) ==
  IF segs = <<>> THEN <<>>
  ELSE IF Len(segs) = 1 THEN Head(segs)
  ELSE Head(segs) \o <<47>> \o Unsplit(Tail(segs))

\* path.relative(base, p) for p below base
Relative(base, p) == Unsplit(SubSeq(p, Len(base) + 1, Len(p)))

\* fs.mkdir(p, {recursive: true}): [err, fs]; fails below a file
Mkdir(f, p) ==
  IF \E q \in Prefixes(p) : IsFile(f, q)
    THEN [err |-> Some("ENOTDIR"), fs |-> f]
    ELSE [err |-> Undefined,
          fs |-> [q \in DOMAIN f \cup Prefixes(p) |->
                    IF q \in DOMAIN f THEN f[q] ELSE DirNode]]

\* fs.writeFile(p, data): [err, fs]; the directory must exist, p be no directory
WriteFile(f, p, node) ==
  IF p = Root \/ IsDirectory(f, p) THEN [err |-> Some("EISDIR"), fs |-> f]
  ELSE IF ~IsDirectory(f, Dirname(p)) THEN [err |-> Some("ENOENT"), fs |-> f]
  ELSE [err |-> Undefined,
        fs |-> [q \in DOMAIN f \cup {p} |-> IF q = p THEN node ELSE f[q]]]

\* the order readdir lists names in: by code points
RECURSIVE Before(_, _)
Before(a, b) ==
  IF a = <<>> THEN TRUE
  ELSE IF b = <<>> THEN FALSE
  ELSE IF Head(a) # Head(b) THEN Head(a) < Head(b)
  ELSE Before(Tail(a), Tail(b))

RECURSIVE Sorted(_)
Sorted(S) ==
  IF S = {} THEN <<>>
  ELSE LET m == CHOOSE x \in S : \A y \in S : Before(x, y)
       IN <<m>> \o Sorted(S \ {m})

\* fs.readdir(dir)
Readdir(f, dir) ==
  Sorted({Basename(q) : q \in {r \in DOMAIN f : Len(r) > 0 /\ Dirname(r) = dir}})

\* getAllFiles(dirPath): the files below dirPath, as paths relative to it
RECURSIVE GetAllFilesFrom(_, _, _, _)
GetAllFilesFrom(f, dirPath, names, basePath) ==
  IF names = <<>> THEN <<>>
  ELSE LET filePath == Append(dirPath, Head(names))
           here == IF IsDirectory(f, filePath)
                     THEN GetAllFilesFrom(f, filePath, Readdir(f, filePath), basePath)
                     ELSE <<Relative(basePath, filePath)>>
       IN here \o GetAllFilesFrom(f, dirPath, Tail(names), basePath)

GetAllFiles(f, dirPath) == GetAllFilesFrom(f, dirPath, Readdir(f, dirPath), dirPath)

----------------------------------------------------------------------------
(* The tools: src/index.ts.  A tool call runs alone, from its call to its  *)
(* reply; the engine call it awaits runs in between.                       *)

NoTool == [name |-> "none"]
NoReply == [status |-> "none"]
NoReplies == [compress |-> NoReply, decompress |-> NoReply, getZipInfo |-> NoReply]

\* the text a tool answers with when it caught an error
Failed(prefix, cause) == [status |-> "failed", text |-> ErrorMessage(prefix, cause)]

\* args.options || {}
OptionsOrEmpty(o, empty) == IF IsDefined(o) THEN Val(o) ELSE empty

\* overwrite ?? false
OrFalse(o) == IF IsDefined(o) THEN Val(o) ELSE FALSE

\* createDirectories ?? true
OrTrue(o) == IF IsDefined(o) THEN Val(o) ELSE TRUE

NoCompressOptions ==
  [level |-> Undefined, comment |-> Undefined, password |-> Undefined,
   encryptionStrength |-> Undefined, overwrite |-> Undefined]

\* z.number().min(0).max(9).optional()
LevelSchema(level) == ~IsDefined(level) \/ Val(level) \in 0..9

\* the parameter schema of the compress tool
CompressSchema(args) ==
  ~IsDefined(args.options) \/ LevelSchema(Val(args.options).level)

\* const { overwrite, ...compressionOptions } = args.options || {}, and then
\* if (compressionOptions?.level && compressionOptions.level > 3) level = 3
CompressionOptionsOf(opts) ==
  [level |-> IF TruthyNumber(opts.level) /\ Val(opts.level) > 3
               THEN Some(3) ELSE opts.level,
   comment |-> opts.comment,
   password |-> opts.password,
   encryptionStrength |-> opts.encryptionStrength]

\* the files of one directory input, named below the directory's own name
DirectoryItems(f, inputPath) ==
  LET files == GetAllFiles(f, inputPath)
  IN [k \in 1..Len(files) |->
        [name |-> Unsplit(<<Basename(inputPath)>> \o Split(files[k])),
         data |-> [type |-> "bytes",
                   val |-> f[Join(inputPath, files[k])].bytes]]]

\* filesToCompress: [err, files] over the input paths, in order
RECURSIVE FilesToCompress(_, _)
FilesToCompress(f, inputPaths) ==
  IF inputPaths = <<>> THEN [err |-> Undefined, files |-> <<>>]
  ELSE LET inputPath == Head(inputPaths)
           rest == FilesToCompress(f, Tail(inputPaths))
           here == IF IsDirectory(f, inputPath)
                     THEN DirectoryItems(f, inputPath)
                     ELSE <<[name |-> Basename(inputPath),
                             data |-> [type |-> "bytes",
                                       val |-> f[inputPath].bytes]]>>
       IN IF ~Exists(f, inputPath)
            THEN [err |-> Some("input path not found"), files |-> <<>>]
          ELSE IF IsDefined(rest.err) THEN rest
          ELSE [err |-> Undefined, files |-> here \o rest.files]

\* the compress tool is called: the schema, then execute up to compressData
ToolCompressCall(args) ==
  /\ tool.name = "none"
  /\ pc = "idle"
  /\ reply.compress.status = "none"
  /\ LET opts == OptionsOrEmpty(args.options, NoCompressOptions)
         outputPath == args.output
         shouldOverwrite == OrFalse(opts.overwrite)
         outputDir == Dirname(outputPath)
         made == IF ~Exists(fs, outputDir) THEN Mkdir(fs, outputDir)
                 ELSE [err |-> Undefined, fs |-> fs]
         got == FilesToCompress(made.fs, args.input)
         stay == UNCHANGED <<pc, caller, frame, ret, call, tool>>
     IN IF ~CompressSchema(args)
          THEN /\ reply' = [reply EXCEPT !.compress = [status |-> "rejected"]]
               /\ stay /\ UNCHANGED fs
        ELSE IF Exists(fs, outputPath) /\ ~shouldOverwrite
          THEN /\ reply' = [reply EXCEPT
                              !.compress = Failed("compress", "output exists")]
               /\ stay /\ UNCHANGED fs
        ELSE IF IsDefined(made.err)
          THEN /\ reply' = [reply EXCEPT
                              !.compress = Failed("compress", Val(made.err))]
               /\ stay /\ UNCHANGED fs
        ELSE IF IsDefined(got.err)
          THEN /\ reply' = [reply EXCEPT
                              !.compress = Failed("compress", Val(got.err))]
               /\ fs' = made.fs
               /\ stay
        ELSE /\ CompressDataBegin([array |-> TRUE, items |-> got.files,
                                   single |-> [type |-> "bytes", val |-> <<>>]],
                                  CompressionOptionsOf(opts), "compress")
             /\ fs' = made.fs
             /\ tool' = [name |-> "compress", args |-> args,
                         count |-> Len(got.files)]
             /\ reply' = [reply EXCEPT !.compress = [status |-> "running"]]

\* compressData came back: the result is written, or the error answered
ToolCompressFinish ==
  /\ tool.name = "compress"
  /\ pc = "idle"
  /\ LET wrote == WriteFile(fs, tool.args.output, ZipFile(ret.value))
     IN IF ret.status = "error"
          THEN /\ reply' = [reply EXCEPT
                              !.compress = Failed("compress", ret.message)]
               /\ UNCHANGED fs
        ELSE IF IsDefined(wrote.err)
          THEN /\ reply' = [reply EXCEPT
                              !.compress = Failed("compress", Val(wrote.err))]
               /\ UNCHANGED fs
        ELSE /\ reply' = [reply EXCEPT
                            !.compress = [status |-> "ok",
                                                            count |-> tool.count]]
             /\ fs' = wrote.fs
  /\ tool' = NoTool
  /\ UNCHANGED <<pc, caller, frame, ret, call>>

NoDecompressOptions ==
  [password |-> Undefined, overwrite |-> Undefined, createDirectories |-> Undefined]

\* new Uint8Array(zipData): the bytes of a file, as the reader sees them
BufferOf(node) ==
  IF node.zip THEN node.buf
  ELSE [entries |-> <<>>, comment |-> <<>>, eocd |-> FALSE]

\* the decompress tool is called: execute up to decompressData
ToolDecompressCall(args) ==
  /\ tool.name = "none"
  /\ pc = "idle"
  /\ reply.decompress.status = "none"
  /\ LET options == OptionsOrEmpty(args.options, NoDecompressOptions)
         inputPath == args.input
         outputPath == args.output
         made == IF Exists(fs, outputPath) THEN [err |-> Undefined, fs |-> fs]
                 ELSE Mkdir(fs, outputPath)
         stay == UNCHANGED <<pc, caller, frame, ret, call, tool>>
     IN IF ~Exists(fs, inputPath)
          THEN /\ reply' = [reply EXCEPT
                              !.decompress = Failed("decompress", "input not found")]
               /\ stay /\ UNCHANGED fs
        ELSE IF Exists(fs, outputPath) /\ ~IsDirectory(fs, outputPath)
          THEN /\ reply' = [reply EXCEPT
                              !.decompress = Failed("decompress", "output is no directory")]
               /\ stay /\ UNCHANGED fs
        ELSE IF ~Exists(fs, outputPath) /\ ~OrTrue(options.createDirectories)
          THEN /\ reply' = [reply EXCEPT
                              !.decompress = Failed("decompress", "output directory missing")]
               /\ stay /\ UNCHANGED fs
        ELSE IF IsDefined(made.err)
          THEN /\ reply' = [reply EXCEPT
                              !.decompress = Failed("decompress", Val(made.err))]
               /\ stay /\ UNCHANGED fs
        ELSE IF IsDirectory(made.fs, inputPath)
          THEN /\ reply' = [reply EXCEPT
                              !.decompress = Failed("decompress", "EISDIR")]
               /\ fs' = made.fs
               /\ stay
        ELSE /\ DecompressDataBegin(BufferOf(made.fs[inputPath]),
                                    [password |-> options.password], "decompress")
             /\ fs' = made.fs
             /\ tool' = [name |-> "decompress", args |-> args,
                         overwrite |-> OrFalse(options.overwrite),
                         k |-> 1, extractedFiles |-> <<>>, written |-> <<>>]
             /\ reply' = [reply EXCEPT !.decompress = [status |-> "running"]]

\* decompressData threw: the error is answered
ToolDecompressFailed ==
  /\ tool.name = "decompress"
  /\ pc = "idle"
  /\ ret.status = "error"
  /\ reply' = [reply EXCEPT !.decompress = Failed("decompress", ret.message)]
  /\ tool' = NoTool
  /\ UNCHANGED <<pc, caller, frame, ret, call, fs>>

\* A faulty variant, kept for comparison: a file passed over is counted as extracted
ToolDecompressExtractCounting ==
  /\ tool.name = "decompress"
  /\ pc = "idle"
  /\ ret.status = "ok"
  /\ tool.k <= Len(ret.value)
  /\ LET file == ret.value[tool.k]
         outputFilePath == Join(tool.args.output, file.name)
         outputFileDir == Dirname(outputFilePath)
         made == IF Exists(fs, outputFileDir) THEN [err |-> Undefined, fs |-> fs]
                 ELSE Mkdir(fs, outputFileDir)
         wrote == WriteFile(made.fs, outputFilePath, RawFile(file.data))
     IN IF IsDefined(made.err)
          THEN /\ reply' = [reply EXCEPT
                              !.decompress = Failed("decompress", Val(made.err))]
               /\ tool' = NoTool
               /\ UNCHANGED fs
        ELSE IF Exists(made.fs, outputFilePath) /\ ~tool.overwrite
          THEN /\ tool' = [tool EXCEPT !.k = @ + 1,
                                       !.extractedFiles = Append(@, file.name)]
               /\ fs' = made.fs
               /\ UNCHANGED reply
        ELSE IF IsDefined(wrote.err)
          THEN /\ reply' = [reply EXCEPT
                              !.decompress = Failed("decompress", Val(wrote.err))]
               /\ tool' = NoTool
               /\ fs' = made.fs
        ELSE /\ tool' = [tool EXCEPT
                           !.k = @ + 1,
                           !.extractedFiles = Append(@, file.name),
                           !.written = Append(@, outputFilePath)]
             /\ fs' = wrote.fs
             /\ UNCHANGED reply
  /\ UNCHANGED <<pc, caller, frame, ret, call>>

\* one round of the loop over the result: a file is written or passed over
ToolDecompressExtract ==
  /\ tool.name = "decompress"
  /\ pc = "idle"
  /\ ret.status = "ok"
  /\ tool.k <= Len(ret.value)
  /\ LET file == ret.value[tool.k]
         outputFilePath == Join(tool.args.output, file.name)
         outputFileDir == Dirname(outputFilePath)
         made == IF Exists(fs, outputFileDir) THEN [err |-> Undefined, fs |-> fs]
                 ELSE Mkdir(fs, outputFileDir)
         wrote == WriteFile(made.fs, outputFilePath, RawFile(file.data))
     IN IF IsDefined(made.err)
          THEN /\ reply' = [reply EXCEPT
                              !.decompress = Failed("decompress", Val(made.err))]
               /\ tool' = NoTool
               /\ UNCHANGED fs
        ELSE IF Exists(made.fs, outputFilePath) /\ ~tool.overwrite
          THEN /\ tool' = [tool EXCEPT !.k = @ + 1]
               /\ fs' = made.fs
               /\ UNCHANGED reply
        ELSE IF IsDefined(wrote.err)
          THEN /\ reply' = [reply EXCEPT
                              !.decompress = Failed("decompress", Val(wrote.err))]
               /\ tool' = NoTool
               /\ fs' = made.fs
        ELSE /\ tool' = [tool EXCEPT
                           !.k = @ + 1,
                           !.extractedFiles = Append(@, file.name),
                           !.written = Append(@, outputFilePath)]
             /\ fs' = wrote.fs
             /\ UNCHANGED reply
  /\ UNCHANGED <<pc, caller, frame, ret, call>>

\* the loop is over: the number of extracted files is answered
ToolDecompressReply ==
  /\ tool.name = "decompress"
  /\ pc = "idle"
  /\ ret.status = "ok"
  /\ tool.k > Len(ret.value)
  /\ reply' = [reply EXCEPT
                 !.decompress = [status |-> "ok",
                                        count |-> Len(tool.extractedFiles),
                                        written |-> tool.written]]
  /\ tool' = NoTool
  /\ UNCHANGED <<pc, caller, frame, ret, call, fs>>

\* the getZipInfo tool is called: execute up to getZipInfo
ToolGetZipInfoCall(args) ==
  /\ tool.name = "none"
  /\ pc = "idle"
  /\ reply.getZipInfo.status = "none"
  /\ LET options == OptionsOrEmpty(args.options, [password |-> Undefined])
         inputPath == args.input
         stay == UNCHANGED <<pc, caller, frame, ret, call, tool>>
     IN IF ~Exists(fs, inputPath)
          THEN /\ reply' = [reply EXCEPT
                              !.getZipInfo = Failed("getZipInfo", "input not found")]
               /\ stay
        ELSE IF IsDirectory(fs, inputPath)
          THEN /\ reply' = [reply EXCEPT
                              !.getZipInfo = Failed("getZipInfo", "EISDIR")]
               /\ stay
        ELSE /\ GetZipInfoBegin(BufferOf(fs[inputPath]), options, "getZipInfo")
             /\ tool' = [name |-> "getZipInfo", args |-> args]
             /\ reply' = [reply EXCEPT !.getZipInfo = [status |-> "running"]]
  /\ UNCHANGED fs

\* getZipInfo came back: the overview is answered, or the error
ToolGetZipInfoReply ==
  /\ tool.name = "getZipInfo"
  /\ pc = "idle"
  /\ IF ret.status = "error"
       THEN reply' = [reply EXCEPT !.getZipInfo = Failed("getZipInfo", ret.message)]
       ELSE reply' = [reply EXCEPT
                        !.getZipInfo =
                          [status |-> "ok",
                                  fileCount |-> Len(ret.value.files),
                                  totalSize |-> ret.value.totalSize,
                                  totalCompressedSize |-> ret.value.totalCompressedSize,
                                  comment |-> IF TruthyString(ret.value.comment)
                                                THEN Val(ret.value.comment)
                                                ELSE <<>>]]
  /\ tool' = NoTool
  /\ UNCHANGED <<pc, caller, frame, ret, call, fs>>

----------------------------------------------------------------------------
(* Calls of the tools, with their inputs, and the disks they may find *)

\* "/a", "/d", "/d/a", "/d/b", "/m", "/z", "/n/z", "/o", "/o/a"
PathA == <<(<<97>>)>>
PathD == <<(<<100>>)>>
PathDA == <<(<<100>>), (<<97>>)>>
PathDB == <<(<<100>>), (<<98>>)>>
PathM == <<(<<109>>)>>
PathZ == <<(<<122>>)>>
PathNZ == <<(<<110>>), (<<122>>)>>
PathO == <<(<<111>>)>>
PathOA == <<(<<111>>), (<<97>>)>>

\* an archive another program wrote: "a", "d/", "d/a", with the comment "c"
ForeignArchive ==
  LET w0 == ZipWriterNew(5, Undefined, Undefined)
      w1 == [w0 EXCEPT !.files = Append(@, FileEntry(w0, <<97>>, <<3>>))]
      w2 == [w1 EXCEPT !.files = Append(@, FileEntry(w0, <<100, 47>>, <<>>))]
      w3 == [w2 EXCEPT !.files = Append(@, FileEntry(w0, <<100, 47, 97>>, <<4, 4>>))]
  IN ZipWriterClose(w3, Some(<<99>>))

\* an archive another program wrote, with the names "/a" and "../q/e"
SlipArchive ==
  LET w0 == ZipWriterNew(5, Undefined, Undefined)
      w1 == [w0 EXCEPT !.files = Append(@, FileEntry(w0, <<47, 97>>, <<3>>))]
      w2 == [w1 EXCEPT !.files =
               Append(@, FileEntry(w0, <<46, 46, 47, 113, 47, 101>>, <<8>>))]
  IN ZipWriterClose(w2, Undefined)

Fun(pairs) == [p \in {x[1] : x \in pairs} |-> (CHOOSE x \in pairs : x[1] = p)[2]]

SourceFiles ==
  {<<PathA, RawFile(<<1>>)>>, <<PathD, DirNode>>,
   <<PathDA, RawFile(<<2, 2>>)>>, <<PathDB, RawFile(<<>>)>>}

\* what is at /z: nothing, a file, an archive, an archive with a payload
\* changed, an archive whose names lead elsewhere
DiskZ ==
  {{}, {<<PathZ, RawFile(<<9>>)>>}, {<<PathZ, ZipFile(ForeignArchive)>>},
   {<<PathZ, ZipFile(Damaged(ForeignArchive, Len(ForeignArchive.entries)))>>},
   {<<PathZ, ZipFile(SlipArchive)>>}}

\* what is at /o: nothing, a directory holding the file a, a file
DiskO == {{}, {<<PathO, DirNode>>, <<PathOA, RawFile(<<5>>)>>},
          {<<PathO, RawFile(<<6>>)>>}}

DiskInputs == {Fun(SourceFiles \cup z \cup o) : z \in DiskZ, o \in DiskO}

CompressArgInputs ==
  [input : {<<PathA>>, <<PathD>>, <<PathA, PathD>>, <<PathA, PathDA>>, <<PathM>>},
   output : {PathZ, PathNZ},
   options : {Undefined}
             \cup {Some(o) : o \in
                    [level : {Undefined, Some(0), Some(2), Some(7), Some(10)},
                     comment : {Undefined, Some(<<99>>)},
                     password : {Undefined, Some(<<112>>)},
                     encryptionStrength : {Undefined},
                     overwrite : {Undefined, Some(FALSE), Some(TRUE)}]}]

DecompressArgInputs ==
  [input : {PathZ, PathM},
   output : {PathO},
   options : {Undefined}
             \cup {Some(o) : o \in
                    [password : {Undefined, Some(<<112>>)},
                     overwrite : {Undefined, Some(TRUE)},
                     createDirectories : {Undefined, Some(FALSE)}]}]

GetZipInfoArgInputs ==
  [input : {PathZ, PathD}, options : {Undefined, Some([password |-> Undefined])}]

UserCompress == \E args \in CompressArgInputs : ToolCompressCall(args)
UserDecompress == \E args \in DecompressArgInputs : ToolDecompressCall(args)
UserGetZipInfo == \E args \in GetZipInfoArgInputs : ToolGetZipInfoCall(args)

----------------------------------------------------------------------------
(* The two specifications: the engine called by a program, and the tools   *)
(* called by a user                                                        *)

NoCall ==
  [compress |-> Undefined, archive |-> Undefined, read |-> Undefined,
   prior |-> Undefined]

Init ==
  /\ pc = "idle"
  /\ caller = "api"
  /\ frame = [op |-> "none"]
  /\ ret = [status |-> "none"]
  /\ call = NoCall
  /\ fs = Fun(SourceFiles)
  /\ tool = NoTool
  /\ reply = NoReplies

Next ==
  \/ ApiCompressData
  \/ CompressDataAdd
  \/ CompressDataClose
  \/ ApiDecompressData
  \/ DecompressDataEntry
  \/ DecompressDataReturn
  \/ ApiGetZipInfo
  \/ GetZipInfoEntry
  \/ GetZipInfoReturn

Spec == Init /\ [][Next]_vars

ToolInit ==
  /\ pc = "idle"
  /\ caller = "api"
  /\ frame = [op |-> "none"]
  /\ ret = [status |-> "none"]
  /\ call = NoCall
  /\ fs \in DiskInputs
  /\ tool = NoTool
  /\ reply = NoReplies

ToolNext ==
  \/ UserCompress
  \/ CompressDataAdd
  \/ CompressDataClose
  \/ ToolCompressFinish
  \/ UserDecompress
  \/ DecompressDataEntry
  \/ DecompressDataReturn
  \/ ToolDecompressFailed
  \/ ToolDecompressExtract
  \/ ToolDecompressReply
  \/ UserGetZipInfo
  \/ GetZipInfoEntry
  \/ GetZipInfoReturn
  \/ ToolGetZipInfoReply

ToolSpec == ToolInit /\ [][ToolNext]_vars

----------------------------------------------------------------------------
(* What the claims speak of *)

Given == Val(call.compress)
GivenItems == Given.data.items
Archive == Val(call.archive)
Read == Val(call.read)

\* compressData has returned or thrown, and nothing was read yet
CompressFinished ==
  /\ pc = "idle"
  /\ IsDefined(call.compress)
  /\ ~IsDefined(call.read)
  /\ ret.status \in {"ok", "error"}

\* the read call op has returned or thrown, and was the only read so far
ReadFinished(op) ==
  /\ pc = "idle"
  /\ IsDefined(call.read)
  /\ Read.op = op
  /\ ~IsDefined(call.prior)
  /\ ret.status \in {"ok", "error"}

\* the reader was given the archive as compressData returned it
Intact == IsDefined(call.archive) /\ Read.buf = Archive

ValidLevel(options) == ~IsDefined(options.level) \/ Val(options.level) \in 0..9

DistinctNames(items) ==
  \A i, j \in 1..Len(items) : i # j => items[i].name # items[j].name

\* no white space around the name, no "/" at its end
FileName(name) == Trim(name) = name /\ ~EndsWithSlash(name)

\* the content of an item as bytes: text as its UTF-8 bytes
Utf8(data) == IF data.type = "string" THEN TextEncode(data.val) ELSE data.val

Expected(items) ==
  [i \in 1..Len(items) |-> [name |-> items[i].name, data |-> Utf8(items[i].data)]]

IsFileItem(item) == ~EndsWithSlash(Trim(item.name))
FileItems(items) == SelectSeq(items, IsFileItem)
Contents(results) == [i \in 1..Len(results) |-> results[i].data]
ExpectedContents(items) ==
  [i \in 1..Len(FileItems(items)) |-> Utf8(FileItems(items)[i].data)]

----------------------------------------------------------------------------
(* C1 *)

RoundTripOf(names(_)) ==
  /\ (/\ CompressFinished
      /\ Given.data.array
      /\ ValidLevel(Given.options)
      /\ names(GivenItems))
     => ret.status = "ok"
  /\ (/\ ReadFinished("decompressData")
      /\ Intact
      /\ Read.options.password = Given.options.password
      /\ Given.data.array
      /\ ValidLevel(Given.options)
      /\ names(GivenItems))
     => (ret.status = "ok" /\ ret.value = Expected(GivenItems))

\* C1 as stated: entries with pairwise distinct names, written under a valid
\* configuration and read back with the same password, come back one for
\* one, in order, with the same names and the same bytes.
C1_RoundTripDistinctNames == RoundTripOf(DistinctNames)

DistinctFileNames(items) ==
  DistinctNames(items) /\ \A i \in 1..Len(items) : FileName(items[i].name)

\* C1, amended: the same, for pairwise distinct names that have no white
\* space around them and do not end with "/".
C1_RoundTripFileNames == RoundTripOf(DistinctFileNames)

C1_RoundTripReached ==
  /\ ReadFinished("decompressData")
  /\ Intact
  /\ Read.options.password = Given.options.password
  /\ TruthyString(Given.options.password)
  /\ Given.data.array
  /\ ValidLevel(Given.options)
  /\ DistinctFileNames(GivenItems)
  /\ Len(GivenItems) = 2
  /\ GivenItems[1].data.type = "string"
  /\ ret.status = "ok"

----------------------------------------------------------------------------
(* C2 *)

PasswordRequired == Thrown("decompressData", ERR_ENCRYPTED)
PasswordMismatch == Thrown("decompressData", ERR_INVALID_PASSWORD)
Corruption ==
  {Thrown("decompressData", ERR_EOCDR_NOT_FOUND),
   Thrown("decompressData", ERR_INVALID_SIGNATURE)}

\* the error is the decryption mismatch, and reads unlike the other errors
ToldApart ==
  /\ ret = PasswordMismatch
  /\ ret.message # PasswordRequired.message
  /\ \A c \in Corruption : ret.message # c.message

\* C2 as stated: an archive written with password p is read with no password
\* only to a password-required error, with another password only to a
\* decryption-mismatch error unlike the password-required and corruption
\* errors, and with p to the original content.
C2_PasswordGatingAnyArchive ==
  (/\ ReadFinished("decompressData")
   /\ Intact
   /\ IsDefined(Given.options.password))
  => /\ ~IsDefined(Read.options.password) => ret = PasswordRequired
     /\ (/\ IsDefined(Read.options.password)
         /\ Read.options.password # Given.options.password) => ToldApart
     /\ Read.options.password = Given.options.password
        => (/\ ret.status = "ok"
            /\ Contents(ret.value) = ExpectedContents(ItemsOf(Given.data)))

\* C2, amended: an archive written with a non-empty password p and holding at
\* least one file entry is read with no or an empty password only to a
\* password-required error, with another non-empty password only to a
\* decryption-mismatch error unlike the password-required and corruption
\* errors, and with p to the original content of its file entries.
C2_PasswordGating ==
  (/\ ReadFinished("decompressData")
   /\ Intact
   /\ TruthyString(Given.options.password)
   /\ FileItems(ItemsOf(Given.data)) # <<>>)
  => /\ ~TruthyString(Read.options.password) => ret = PasswordRequired
     /\ (/\ TruthyString(Read.options.password)
         /\ Read.options.password # Given.options.password) => ToldApart
     /\ Read.options.password = Given.options.password
        => (/\ ret.status = "ok"
            /\ Contents(ret.value) = ExpectedContents(ItemsOf(Given.data)))

C2_WrongPasswordReached ==
  /\ ReadFinished("decompressData")
  /\ Intact
  /\ TruthyString(Given.options.password)
  /\ TruthyString(Read.options.password)
  /\ Read.options.password # Given.options.password
  /\ Len(FileItems(ItemsOf(Given.data))) = 2
  /\ ret.status = "error"

----------------------------------------------------------------------------
(* C9 *)

\* the last item given under the name that item i has
LastOfName(items, i) ==
  items[CHOOSE j \in 1..Len(items) :
          /\ items[j].name = items[i].name
          /\ \A k \in 1..Len(items) : items[k].name = items[i].name => k <= j]

SharedName(items) ==
  \E i, j \in 1..Len(items) : i # j /\ Trim(items[i].name) = Trim(items[j].name)

----------------------------------------------------------------------------
(* C3 *)

\* the level the caller of the running compressData configured
ConfiguredLevel ==
  IF caller = "compress"
    THEN OptionsOrEmpty(tool.args.options, NoCompressOptions).level
    ELSE Given.options.level

\* C3 as stated: the writer is created with the level the caller configured,
\* for every level in 0..9 given to compressData or to the compress tool, and
\* with 5 when none is given.
C3_WriterLevelIsConfigured ==
  (pc = "compressData" /\ (IsDefined(ConfiguredLevel) => Val(ConfiguredLevel) \in 0..9))
  => frame.zipWriter.level
       = (IF IsDefined(ConfiguredLevel) THEN Val(ConfiguredLevel) ELSE 5)

----------------------------------------------------------------------------
(* C4 *)

\* C4 as stated: compressData given a level outside 0..9 adds no entry,
\* produces no archive and ends in an error.
C4_BadLevelRejected ==
  (/\ IsDefined(call.compress)
   /\ frame.op = "compressData"
   /\ ~ValidLevel(Given.options))
  => /\ frame.adds = 0
     /\ ~IsDefined(call.archive)
     /\ pc = "idle" => ret.status = "error"

----------------------------------------------------------------------------
(* C5 *)

\* C5 as stated: getZipInfo of an archive the compress tool wrote reports the
\* comment the tool was given in options.comment, and none when none was given.
C5_CommentRoundTrip ==
  (/\ pc = "idle"
   /\ caller = "getZipInfo"
   /\ ret.status = "ok"
   /\ IsDefined(call.compress)
   /\ IsDefined(call.archive)
   /\ Read.buf = Archive)
  => IF IsDefined(Given.options.comment)
       THEN ret.value.comment = Given.options.comment
       ELSE ~TruthyString(ret.value.comment)

----------------------------------------------------------------------------
(* C6 *)

NameOf(e) == TextDecode(e.rawFilename)
IsDirectoryEntry(e) == EndsWithSlash(NameOf(e))
IsFileEntry(e) == ~IsDirectoryEntry(e)
FileEntries(buf) == SelectSeq(buf.entries, IsFileEntry)
DirectoryNames(buf) ==
  {NameOf(buf.entries[i]) : i \in {j \in 1..Len(buf.entries) :
                                     IsDirectoryEntry(buf.entries[j])}}

Names(files) == {files[i].filename : i \in 1..Len(files)}
ResultNames(results) == {results[i].name : i \in 1..Len(results)}

TotalsOverFiles(buf, metadata) ==
  /\ metadata.totalSize
       = SumSeq([i \in 1..Len(FileEntries(buf)) |->
                   FileEntries(buf)[i].uncompressedSize])
  /\ metadata.totalCompressedSize
       = SumSeq([i \in 1..Len(FileEntries(buf)) |->
                   FileEntries(buf)[i].compressedSize])

----------------------------------------------------------------------------
(* C7 *)

Prior == Val(call.prior)

\* getZipInfo has returned, after decompressData returned for the same
\* buffer and password
BothSucceeded ==
  /\ pc = "idle"
  /\ IsDefined(call.prior)
  /\ Read.op = "getZipInfo"
  /\ Prior.op = "decompressData"
  /\ Prior.buf = Read.buf
  /\ Prior.options = Read.options
  /\ Prior.ret.status = "ok"
  /\ ret.status = "ok"

----------------------------------------------------------------------------
(* C8 *)

\* what compressData, decompressData or getZipInfo returned is whole
WholeResult ==
  (pc = "idle" /\ ret.status = "ok")
  => CASE frame.op = "compressData" ->
            /\ frame.i > Len(frame.items)
            /\ Len(ret.value.entries) = Len(frame.items)
       [] frame.op = "decompressData" ->
            /\ frame.i > Len(frame.entries)
            /\ Len(ret.value) = Len(FileEntries(Read.buf))
       [] frame.op = "getZipInfo" ->
            /\ frame.i > Len(frame.entries)
            /\ Len(ret.value.files) = Len(FileEntries(Read.buf))

\* a call that stopped before its loop was over ended in an error
StoppedIsError ==
  (pc = "idle" /\ frame.op \in {"compressData", "decompressData", "getZipInfo"})
  => \/ ret.status = "error"
     \/ frame.i > (IF frame.op = "compressData"
                     THEN Len(frame.items) ELSE Len(frame.entries))

FilesOf(f) == {p \in DOMAIN f : f[p].kind = "file"}

\* a step of the compress tool that writes a file writes the whole archive
\* compressData returned, to the output path
WritesAfterSuccess ==
  (/\ tool.name = "compress" \/ tool'.name = "compress"
   /\ \E p \in FilesOf(fs') : p \notin FilesOf(fs) \/ fs'[p] # fs[p])
  => /\ pc = "idle"
     /\ ret.status = "ok"
     /\ Len(ret.value.entries) = tool.count
     /\ fs'[tool.args.output] = ZipFile(ret.value)

\* C8: compressData, decompressData and getZipInfo return a whole result or
\* end in an error, and the compress tool writes the output file only after
\* compressData has returned the archive of all entries.
C8_AllOrNothing ==
  /\ [](WholeResult /\ StoppedIsError)
  /\ [][WritesAfterSuccess]_vars

C8_PartialFailureReached ==
  /\ pc = "idle"
  /\ caller = "decompress"
  /\ ret.status = "error"
  /\ Len(frame.results) > 0
  /\ reply.decompress.status = "failed"

----------------------------------------------------------------------------
(* C10 *)

\* every file there is stays as it is
FilesKept == \A p \in FilesOf(fs) : p \in FilesOf(fs') /\ fs'[p] = fs[p]

CompressOverwrite(t) ==
  OrFalse(OptionsOrEmpty(t.args.options, NoCompressOptions).overwrite)

\* a call of the compress tool changes no file, and goes on to compressData
\* without overwrite only when there is nothing at the output path
CompressCallKeeps ==
  (tool.name = "none" /\ reply'.compress # reply.compress)
  => /\ FilesKept
     /\ (tool'.name = "compress" /\ ~CompressOverwrite(tool'))
        => ~Exists(fs, tool'.args.output)
     /\ (tool'.name = "none" /\ reply'.compress.status # "rejected")
        => reply'.compress.status = "failed"

\* the compress tool running without overwrite changes no file there is
CompressKeeps ==
  (tool.name = "compress" /\ ~CompressOverwrite(tool)) => FilesKept

\* the decompress tool, called or running without overwrite, changes no file
\* there is
DecompressKeeps ==
  /\ (tool.name = "none" /\ reply'.decompress # reply.decompress) => FilesKept
  /\ (tool.name = "decompress" /\ ~tool.overwrite) => FilesKept

\* the decompress tool answers the number of files it wrote, and without
\* overwrite every entry is then there: written now, or there before
DecompressCounts ==
  (tool.name = "decompress" /\ reply'.decompress.status = "ok")
  => /\ reply'.decompress.count = Len(tool.written)
     /\ \A k \in 1..Len(ret.value) :
          Exists(fs, Join(tool.args.output, ret.value[k].name))
     /\ \A k \in 1..Len(tool.written) : tool.written[k] \in FilesOf(fs)

\* C10: without overwrite, the compress tool changes no output file that is
\* already there and answers a failure, the decompress tool changes no file
\* that is already there, passes such entries over and extracts the others,
\* and the number it answers is the number of files it wrote.
C10_OverwriteProtection ==
  [][CompressCallKeeps /\ CompressKeeps /\ DecompressKeeps /\ DecompressCounts]_vars

C10_SkippedReached ==
  /\ reply.decompress.status = "ok"
  /\ caller = "decompress"
  /\ reply.decompress.count > 0
  /\ reply.decompress.count < Len(ret.value)
  /\ fs[PathOA] = RawFile(<<5>>)

----------------------------------------------------------------------------
(* C11 *)

\* p is the directory base or lies below it
Within(base, p) == Len(p) >= Len(base) /\ SubSeq(p, 1, Len(base)) = base

\* what a step created or wrote: the paths that are new or hold something else
Touched == {p \in DOMAIN fs' : p \notin DOMAIN fs \/ fs'[p] # fs[p]}

\* the output directory of the decompress call a step belongs to
OutputOf == IF tool.name = "decompress" THEN tool.args.output ELSE tool'.args.output

\* C11: every file or directory the decompress tool creates or writes, when
\* it is called and in every round of its loop over the entries, lies within
\* the output directory given in the call (or is that directory or one above
\* it, made so that it exists), whatever the names of the entries are.
C11_ExtractionStaysInside ==
  [][(tool.name = "decompress" \/ tool'.name = "decompress")
     => \A p \in Touched :
          Within(OutputOf, p) \/ p \in Prefixes(OutputOf)]_vars

====
